---- MODULE Spec2Model ----
(***************************************************************************)
(* Model of main.py: a JSON document text (responsestr) is turned into     *)
(* records by four techniques -- method00 (marshmallow schema, dict        *)
(* result), method01 (marshmallow schema with post_load constructors),     *)
(* method02 (json object_hook binding SimpleNamespace) and method03 (json  *)
(* object_hook with a hand-written object_decoder).  The module runs       *)
(* method00(); method01(); method02() in sequence (lines 362-364); an      *)
(* uncaught exception ends the run.                                        *)
(***************************************************************************)
EXTENDS Integers, Sequences, FiniteSets, TLC

VARIABLES
    responsestr,     \* the document text, a sequence of JSON tokens (line 9-18)
    pc,              \* position of the run in the source
    exc,             \* the uncaught exception that ended the run, or NoExc
    stdout,          \* the lines printed so far
    heap,            \* record trees built by post_load constructors, by address
    result,          \* local `result` of method00 / method01
    out,             \* local `out` of method01
    datain,          \* local `datain` of method01
    dataout,         \* local `dataout` of method01
    boundclass,      \* local `boundclass` of method02
    boundclasslist,  \* local `boundclasslist` of method03
    i                \* index of the running for loop

vars == << responsestr, pc, exc, stdout, heap, result, out, datain, dataout,
           boundclass, boundclasslist, i >>

\* Largest number of station objects in an input document.
MaxStations == 2

(***************************************************************************)
(* Python / JSON values.  Every value is a record of one shape, so that    *)
(* any two values can be compared: t is the kind, s a string payload, n a  *)
(* number payload, kv the members (of a dict, a list or an object's        *)
(* attributes) in insertion order.                                         *)
(***************************************************************************)
JStr(s) == [t |-> "str", s |-> s, n |-> 0, kv |-> << >>]
JInt(n) == [t |-> "int", s |-> "", n |-> n, kv |-> << >>]
JObj(pairs) == [t |-> "dict", s |-> "", n |-> 0, kv |-> pairs]
JArr(items) ==
    [t |-> "list", s |-> "", n |-> 0,
     kv |-> [j \in 1..Len(items) |-> [k |-> "", v |-> items[j]]]]
PyNone == [t |-> "None", s |-> "", n |-> 0, kv |-> << >>]
\* an instance of class cls with the attributes attrs
PyObject(cls, attrs) == [t |-> cls, s |-> "", n |-> 0, kv |-> attrs]
KV(k, v) == [k |-> k, v |-> v]

Items(v) == [j \in 1..Len(v.kv) |-> v.kv[j].v]
Keys(v) == {v.kv[j].k : j \in 1..Len(v.kv)}
HasKey(v, k) == k \in Keys(v)
Get(v, k) == LET j == CHOOSE j \in 1..Len(v.kv) : v.kv[j].k = k IN v.kv[j].v

\* d[k] = v on a dict: an existing key keeps its place, a new key goes last
DictSet(pairs, k, v) ==
    IF \E j \in 1..Len(pairs) : pairs[j].k = k
    THEN [j \in 1..Len(pairs) |-> IF pairs[j].k = k THEN KV(k, v) ELSE pairs[j]]
    ELSE Append(pairs, KV(k, v))

SelectPairs(pairs, keep) == SelectSeq(pairs, LAMBDA p : p.k \in keep)

(***************************************************************************)
(* JSON text: a sequence of tokens.  "p" punctuation, "s" a string         *)
(* literal, "n" a number literal, "w" a bare word (not JSON).              *)
(***************************************************************************)
Punct(c) == [k |-> "p", s |-> c, n |-> 0]
StrTok(s) == [k |-> "s", s |-> s, n |-> 0]
NumTok(n) == [k |-> "n", s |-> "", n |-> n]
WordTok(s) == [k |-> "w", s |-> s, n |-> 0]

RECURSIVE Encode(_)
RECURSIVE EncodeMembers(_, _)
RECURSIVE EncodeItems(_, _)
\* json.dumps: the text of a dict / list / str / int value
Encode(v) ==
    CASE v.t = "str" -> << StrTok(v.s) >>
      [] v.t = "int" -> << NumTok(v.n) >>
      [] v.t = "dict" -> << Punct("{") >> \o EncodeMembers(v.kv, 1) \o << Punct("}") >>
      [] v.t = "list" -> << Punct("[") >> \o EncodeItems(v.kv, 1) \o << Punct("]") >>
      [] OTHER -> << WordTok(v.t) >>
EncodeMembers(pairs, j) ==
    IF j > Len(pairs) THEN << >>
    ELSE (IF j > 1 THEN << Punct(",") >> ELSE << >>)
         \o << StrTok(pairs[j].k), Punct(":") >> \o Encode(pairs[j].v)
         \o EncodeMembers(pairs, j + 1)
EncodeItems(pairs, j) ==
    IF j > Len(pairs) THEN << >>
    ELSE (IF j > 1 THEN << Punct(",") >> ELSE << >>)
         \o Encode(pairs[j].v) \o EncodeItems(pairs, j + 1)

ParseFail == [ok |-> FALSE, v |-> PyNone, i |-> 0]
ParseOk(v, j) == [ok |-> TRUE, v |-> v, i |-> j]
IsPunct(toks, j, c) == j <= Len(toks) /\ toks[j].k = "p" /\ toks[j].s = c

RECURSIVE ParseValue(_, _)
RECURSIVE ParseMembers(_, _, _)
RECURSIVE ParseItems(_, _, _)
\* the JSON decoder: the value starting at token j and the index after it
ParseValue(toks, j) ==
    IF j > Len(toks) THEN ParseFail
    ELSE CASE toks[j].k = "s" -> ParseOk(JStr(toks[j].s), j + 1)
           [] toks[j].k = "n" -> ParseOk(JInt(toks[j].n), j + 1)
           [] IsPunct(toks, j, "{") ->
                IF IsPunct(toks, j + 1, "}") THEN ParseOk(JObj(<< >>), j + 2)
                ELSE ParseMembers(toks, j + 1, << >>)
           [] IsPunct(toks, j, "[") ->
                IF IsPunct(toks, j + 1, "]") THEN ParseOk(JArr(<< >>), j + 2)
                ELSE ParseItems(toks, j + 1, << >>)
           [] OTHER -> ParseFail
ParseMembers(toks, j, acc) ==
    IF ~(j + 1 <= Len(toks) /\ toks[j].k = "s" /\ IsPunct(toks, j + 1, ":"))
    THEN ParseFail
    ELSE LET r == ParseValue(toks, j + 2) IN
         IF ~r.ok THEN ParseFail
         ELSE LET acc2 == DictSet(acc, toks[j].s, r.v) IN
              IF IsPunct(toks, r.i, "}") THEN ParseOk(JObj(acc2), r.i + 1)
              ELSE IF IsPunct(toks, r.i, ",") THEN ParseMembers(toks, r.i + 1, acc2)
              ELSE ParseFail
ParseItems(toks, j, acc) ==
    LET r == ParseValue(toks, j) IN
    IF ~r.ok THEN ParseFail
    ELSE LET acc2 == Append(acc, r.v) IN
         IF IsPunct(toks, r.i, "]") THEN ParseOk(JArr(acc2), r.i + 1)
         ELSE IF IsPunct(toks, r.i, ",") THEN ParseItems(toks, r.i + 1, acc2)
         ELSE ParseFail

\* a decoder that stops at the end of the first value and ignores the rest
JsonLoadsLenient(text) ==
    LET r == ParseValue(text, 1) IN
    IF r.ok THEN [ok |-> TRUE, v |-> r.v] ELSE [ok |-> FALSE, v |-> PyNone]

\* json.loads(text): the decoded value, or JSONDecodeError (also on trailing
\* tokens, "Extra data")
JsonLoads(text) ==
    LET r == ParseValue(text, 1) IN
    IF r.ok /\ r.i = Len(text) + 1 THEN [ok |-> TRUE, v |-> r.v]
    ELSE [ok |-> FALSE, v |-> PyNone]

(***************************************************************************)
(* The input documents: texts of the shape the API returns (a network with *)
(* company, href, id, location, name and a list of stations), with keys    *)
(* dropped or added at each nesting level, and texts that are not JSON.    *)
(***************************************************************************)
Without(obj, keys) == JObj(SelectPairs(obj.kv, Keys(obj) \ keys))
With(obj, k, v) == JObj(DictSet(obj.kv, k, v))

FullStation(name, free) ==
    JObj(<< KV("empty_slots", JInt(5)),
            KV("extra", JObj(<< KV("slots", JInt(8)) >>)),
            KV("free_bikes", JInt(free)),
            KV("id", JStr("sid")),
            KV("latitude", JInt(36)),
            KV("longitude", JInt(28)),
            KV("name", JStr(name)),
            KV("timestamp", JStr("ts")) >>)

StationShapes ==
    { FullStation("A", 3),
      FullStation("B", 0),
      With(FullStation("A", 3), "extraField", JStr("x")),
      With(FullStation("B", 0), "extra",
           JObj(<< KV("slots", JInt(8)), KV("extraField", JStr("x")) >>)),
      With(FullStation("B", 0), "extra", JObj(<< >>)),
      Without(FullStation("A", 3), {"empty_slots"}),
      Without(FullStation("B", 0), {"name"}),
      Without(FullStation("A", 3), {"free_bikes"}),
      JObj(<< KV("name", JStr("B")), KV("free_bikes", JInt(0)) >>) }

FullLocation ==
    JObj(<< KV("city", JStr("Rhodes")), KV("country", JStr("GR")),
            KV("latitude", JStr("36.4")), KV("longitude", JStr("28.2")) >>)

FullNetwork(stations) ==
    JObj(<< KV("company", JArr(<< JStr("Cyclopolis Systems") >>)),
            KV("href", JStr("/v2/networks/cyclopolis-rhodes")),
            KV("id", JStr("cyclopolis-rhodes")),
            KV("location", FullLocation),
            KV("name", JStr("Cyclopolis")),
            KV("stations", JArr(stations)) >>)

NetworkShapes(stations) ==
    LET full == FullNetwork(stations) IN
    { full,
      With(full, "extraField", JStr("x")),
      With(full, "free_bikes", JInt(7)),
      With(full, "location", With(FullLocation, "extraField", JStr("x"))),
      With(full, "location", Without(FullLocation, {"country"})),
      Without(full, {"company"}),
      Without(full, {"location"}),
      Without(full, {"stations"}) }

\* station lists of every length up to MaxStations, and the short ones
StationLists == UNION {[1..n -> StationShapes] : n \in 0..MaxStations}
ShortStationLists ==
    {ss \in StationLists : Len(ss) <= 1}
    \cup {<< FullStation("A", 3), FullStation("B", 0) >>}

\* every station list in the full network, and every network and root
\* shape around the short station lists
WellFormedDocuments ==
    { JObj(<< KV("network", FullNetwork(ss)) >>) : ss \in StationLists }
    \cup UNION { { JObj(<< KV("network", nw) >>),
                   JObj(<< KV("network", nw), KV("extraField", JStr("x")) >>) } :
                 nw \in UNION {NetworkShapes(ss) : ss \in ShortStationLists} }
    \cup { JObj(<< >>), JArr(<< >>), JObj(<< KV("network", JArr(<< >>)) >>) }

SmallText ==
    Encode(JObj(<< KV("network",
        JObj(<< KV("stations", JArr(<< JObj(<< KV("free_bikes", JInt(3)) >>) >>)) >>)) >>))

\* texts json.loads rejects: "{network:", every proper prefix of a small
\* document, and a document followed by a stray token
MalformedTexts ==
    { << Punct("{"), WordTok("network"), Punct(":") >> }
    \cup { SubSeq(SmallText, 1, n) : n \in 0..(Len(SmallText) - 1) }
    \cup { SmallText \o << Punct("}") >> }

Texts == {Encode(d) : d \in WellFormedDocuments} \cup MalformedTexts

(***************************************************************************)
(* The marshmallow schemas.  A schema is the sequence of its declared      *)
(* fields; a Nested field names its schema, a List field its container.    *)
(***************************************************************************)
Fld(name, type, required, nested, container) ==
    [name |-> name, type |-> type, required |-> required,
     nested |-> nested, container |-> container]
Scalar(name, type) == Fld(name, type, FALSE, "", "")
Required(f) == [f EXCEPT !.required = TRUE]
NestedFld(name, schema) == Fld(name, "Nested", FALSE, schema, "")
ListOf(name, container, schema) == Fld(name, "List", FALSE, schema, container)

\* method00's schema classes
M00_ExtraSchema == << Scalar("slots", "Integer") >>
M00_LocationSchema ==
    << Scalar("city", "String"), Scalar("country", "String"),
       Scalar("latitude", "String"), Scalar("longitude", "String") >>
\* the station schema with name declared without required=True
M00_StationSchema_NameOptional ==
    << Scalar("empty_slots", "Integer"),
       NestedFld("extra", "M00_ExtraSchema"),
       Required(Scalar("free_bikes", "Integer")),
       Scalar("id", "String"),
       Scalar("latitude", "Float"),
       Scalar("longitude", "Float"),
       Scalar("name", "String"),
       Scalar("timestamp", "String") >>

M00_StationSchema ==
    << Scalar("empty_slots", "Integer"),
       NestedFld("extra", "M00_ExtraSchema"),
       Required(Scalar("free_bikes", "Integer")),
       Scalar("id", "String"),
       Scalar("latitude", "Float"),
       Scalar("longitude", "Float"),
       Required(Scalar("name", "String")),
       Scalar("timestamp", "String") >>
M00_NetworkSchema ==
    << ListOf("company", "String", ""),
       Scalar("href", "String"),
       Scalar("id", "String"),
       Required(NestedFld("location", "M00_LocationSchema")),
       Scalar("name", "String"),
       ListOf("stations", "Nested", "M00_StationSchema") >>
M00_CityBikesAPISchema == << Required(NestedFld("network", "M00_NetworkSchema")) >>

\* the `only` argument of method00's schema instance: dotted paths.  A schema
\* instance loads the declared fields that head a path and hands the tails to
\* the nested schema, so the network is loaded for its stations alone and
\* location is not visited; the other fields of a station are still loaded
\* ("Items on the same and higher levels of nesting will also be loaded")
NoOnly == [on |-> FALSE, paths |-> {}]
M00_only ==
    [on |-> TRUE,
     paths |-> { << "network", "stations", "name" >>,
                 << "network", "stations", "free_bikes" >> }]

\* method01's schema classes
M01_ExtraSchema == << Scalar("slots", "Integer") >>
M01_LocationSchema == << Scalar("city", "String"), Scalar("country", "String") >>
M01_StationSchema ==
    << Scalar("empty_slots", "Integer"),
       NestedFld("extra", "M01_ExtraSchema"),
       Required(Scalar("free_bikes", "Integer")),
       Scalar("id", "String"),
       Scalar("latitude", "Float"),
       Scalar("longitude", "Float"),
       Required(Scalar("name", "String")),
       Scalar("timestamp", "String") >>
M01_NetworkSchema ==
    << ListOf("company", "String", ""),
       Scalar("href", "String"),
       Scalar("id", "String"),
       Required(NestedFld("location", "M01_LocationSchema")),
       Scalar("name", "String"),
       Required(ListOf("stations", "Nested", "M01_StationSchema")) >>
M01_CityBikesAPISchema == << Required(NestedFld("network", "M01_NetworkSchema")) >>

SchemaFields(schema) ==
    CASE schema = "M00_ExtraSchema" -> M00_ExtraSchema
      [] schema = "M00_LocationSchema" -> M00_LocationSchema
      [] schema = "M00_StationSchema" -> M00_StationSchema
      [] schema = "M00_NetworkSchema" -> M00_NetworkSchema
      [] schema = "M00_CityBikesAPISchema" -> M00_CityBikesAPISchema
      [] schema = "M01_ExtraSchema" -> M01_ExtraSchema
      [] schema = "M01_LocationSchema" -> M01_LocationSchema
      [] schema = "M01_StationSchema" -> M01_StationSchema
      [] schema = "M01_NetworkSchema" -> M01_NetworkSchema
      [] schema = "M01_CityBikesAPISchema" -> M01_CityBikesAPISchema

\* the class a schema's @post_load hook instantiates ("" when it has no hook)
postload(schema) ==
    CASE schema = "M01_ExtraSchema" -> "Extra"
      [] schema = "M01_LocationSchema" -> "Location"
      [] schema = "M01_StationSchema" -> "Station"
      [] schema = "M01_NetworkSchema" -> "Network"
      [] schema = "M01_CityBikesAPISchema" -> "CityBikesAPI"
      [] OTHER -> ""

\* the parameters of each class's __init__ (none has a default)
InitParams(cls) ==
    CASE cls = "Extra" -> {"slots"}
      [] cls = "Location" -> {"city", "country"}
      [] cls = "Station" ->
            {"empty_slots", "extra", "free_bikes", "id", "latitude",
             "longitude", "name", "timestamp"}
      [] cls = "Network" ->
            {"company", "href", "id", "location", "name", "stations"}
      [] cls = "CityBikesAPI" -> {"network"}

\* the outcome of a (nested) load: the data built, the errors collected in
\* visiting order, each with its path, and the exception that escaped
Res(data, errors, raised) == [data |-> data, errors |-> errors, raised |-> raised]
KeyStep(k) == [k |-> k, i |-> -1]
IdxStep(j) == [k |-> "", i |-> j]
Err(path, msg) == [path |-> path, msg |-> msg]
MissingMsg == "Missing data for required field."

\* Cls(**data): every __init__ parameter must be among the keyword
\* arguments, and every keyword argument a parameter
Construct(cls, data) ==
    IF Keys(data) = InitParams(cls)
    THEN Res(PyObject(cls, data.kv), << >>, "")
    ELSE Res(PyNone, << >>, "TypeError")

\* the fields a schema instance loads under its `only` option
OnlyFields(fields, only) ==
    IF only.on
    THEN SelectSeq(fields, LAMBDA f : \E p \in only.paths : p[1] = f.name)
    ELSE fields
\* the `only` option handed down to the schema of nested field `name`
NestedOnly(only, name) ==
    LET tails == {Tail(p) : p \in {q \in only.paths : q[1] = name /\ Len(q) > 1}}
    IN IF only.on /\ tails # {} THEN [on |-> TRUE, paths |-> tails] ELSE NoOnly

\* whether a field of this type accepts the decoded value (JSON numbers are
\* written as integers here, so Float accepts what Integer does)
ValidScalar(type, raw) ==
    CASE type = "Integer" -> raw.t = "int"
      [] type = "Float" -> raw.t = "int"
      [] type = "String" -> raw.t = "str"
InvalidMsg(type) ==
    CASE type = "Integer" -> "Not a valid integer."
      [] type = "Float" -> "Not a valid number."
      [] type = "String" -> "Not a valid string."
      [] type = "List" -> "Not a valid list."
      [] OTHER -> "Invalid input type."

RECURSIVE Unmarshal(_, _, _, _)
RECURSIVE UnmarshalFields(_, _, _, _, _, _)
RECURSIVE DeserializeField(_, _, _, _)
RECURSIVE DeserializeList(_, _, _, _, _)
RECURSIVE DeserializeListFailFast(_, _, _, _, _)

\* a load that keeps the keys the schema does not declare
UnmarshalInclude(schema, only, value, path) ==
    IF value.t # "dict"
    THEN Res(PyNone, << Err(Append(path, KeyStep("_schema")), InvalidMsg("")) >>, "")
    ELSE LET fields == OnlyFields(SchemaFields(schema), only)
             r == UnmarshalFields(fields, 1, only, value, path,
                                  Res(JObj(<< >>), << >>, ""))
             unknown == SelectPairs(value.kv,
                            Keys(value) \ {fields[n].name : n \in 1..Len(fields)})
             all == Res(JObj(r.data.kv \o unknown), r.errors, r.raised)
         IN IF r.raised # "" \/ r.errors # << >> \/ postload(schema) = ""
            THEN all
            ELSE Construct(postload(schema), all.data)

\* Schema.load of one object: every field of the schema is visited and its
\* errors stored; the post_load hook runs only when none was stored
Unmarshal(schema, only, value, path) ==
    IF value.t # "dict"
    THEN Res(PyNone, << Err(Append(path, KeyStep("_schema")), InvalidMsg("")) >>, "")
    ELSE LET r == UnmarshalFields(OnlyFields(SchemaFields(schema), only), 1,
                                  only, value, path, Res(JObj(<< >>), << >>, ""))
         IN IF r.raised # "" \/ r.errors # << >> \/ postload(schema) = ""
            THEN r
            ELSE Construct(postload(schema), r.data)

UnmarshalFields(fields, j, only, value, path, acc) ==
    IF j > Len(fields) \/ acc.raised # "" THEN acc
    ELSE LET f == fields[j]
             p == Append(path, KeyStep(f.name))
         IN IF ~HasKey(value, f.name)
            THEN UnmarshalFields(fields, j + 1, only, value, path,
                    IF f.required
                    THEN Res(acc.data, Append(acc.errors, Err(p, MissingMsg)), "")
                    ELSE acc)
            ELSE LET r == DeserializeField(f, NestedOnly(only, f.name),
                                           Get(value, f.name), p)
                 IN UnmarshalFields(fields, j + 1, only, value, path,
                        Res(IF r.errors = << >> /\ r.raised = ""
                            THEN JObj(Append(acc.data.kv, KV(f.name, r.data)))
                            ELSE acc.data,
                            acc.errors \o r.errors, r.raised))

DeserializeField(f, only, raw, path) ==
    CASE f.type = "Nested" -> Unmarshal(f.nested, only, raw, path)
      [] f.type = "List" ->
            IF raw.t # "list" THEN Res(PyNone, << Err(path, InvalidMsg("List")) >>, "")
            ELSE DeserializeList(f, Items(raw), 1, path, Res(JArr(<< >>), << >>, ""))
      [] OTHER ->
            IF ValidScalar(f.type, raw) THEN Res(raw, << >>, "")
            ELSE Res(PyNone, << Err(path, InvalidMsg(f.type)) >>, "")

\* a list load that stops at the first element with an error
DeserializeListFailFast(f, items, j, path, acc) ==
    IF j > Len(items) \/ acc.raised # "" \/ acc.errors # << >> THEN acc
    ELSE LET r == DeserializeField(Fld(f.name, f.container, FALSE, f.nested, ""),
                                   NoOnly, items[j], Append(path, IdxStep(j - 1)))
         IN DeserializeListFailFast(f, items, j + 1, path,
                Res(JArr(Append(Items(acc.data), r.data)),
                    acc.errors \o r.errors, r.raised))

\* List._deserialize: each element by the container field, the errors of
\* every element kept under its index; `only` does not reach the container
DeserializeList(f, items, j, path, acc) ==
    IF j > Len(items) \/ acc.raised # "" THEN acc
    ELSE LET r == DeserializeField(Fld(f.name, f.container, FALSE, f.nested, ""),
                                   NoOnly, items[j], Append(path, IdxStep(j - 1)))
         IN DeserializeList(f, items, j + 1, path,
                Res(JArr(Append(Items(acc.data), r.data)),
                    acc.errors \o r.errors, r.raised))

\* schema.loads(text): json.loads, then the load of the decoded value
SchemaLoads(schema, only, text) ==
    LET d == JsonLoads(text) IN
    IF ~d.ok THEN Res(PyNone, << >>, "JSONDecodeError")
    ELSE Unmarshal(schema, only, d.v, << >>)

RECURSIVE Marshal(_, _)
RECURSIVE MarshalFields(_, _, _)
RECURSIVE SerializeField(_, _)
\* Schema.dump of an object: the declared fields the object has, in
\* declaration order, nested objects by their own schema
Marshal(schema, obj) == JObj(MarshalFields(SchemaFields(schema), 1, obj))
MarshalFields(fields, j, obj) ==
    IF j > Len(fields) THEN << >>
    ELSE (IF HasKey(obj, fields[j].name)
          THEN << KV(fields[j].name, SerializeField(fields[j], Get(obj, fields[j].name))) >>
          ELSE << >>)
         \o MarshalFields(fields, j + 1, obj)
SerializeField(f, v) ==
    CASE f.type = "Nested" -> Marshal(f.nested, v)
      [] f.type = "List" ->
            JArr([j \in 1..Len(v.kv) |->
                    SerializeField(Fld(f.name, f.container, FALSE, f.nested, ""),
                                   v.kv[j].v)])
      [] OTHER -> v

\* schema.dumps(obj): the dumped dict as JSON text
SchemaDumps(schema, obj) == Encode(Marshal(schema, obj))

(***************************************************************************)
(* json.loads with an object_hook: the hook is called on every decoded     *)
(* JSON object, innermost first, and its return value takes the object's   *)
(* place.                                                                  *)
(***************************************************************************)
\* method03.object_decoder
object_decoder(obj) ==
    IF HasKey(obj, "free_bikes") /\ HasKey(obj, "name")
    THEN PyObject("Station",
                  << KV("name", Get(obj, "name")),
                     KV("free_bikes", Get(obj, "free_bikes")) >>)
    ELSE obj

\* method02's lambda arglist: SimpleNamespace(**arglist)
namespace_hook(obj) == PyObject("SimpleNamespace", obj.kv)

CallHook(hook, obj) ==
    CASE hook = "object_decoder" -> object_decoder(obj)
      [] hook = "SimpleNamespace" -> namespace_hook(obj)

RECURSIVE ApplyHook(_, _)
ApplyHook(hook, v) ==
    CASE v.t = "dict" ->
            CallHook(hook, JObj([j \in 1..Len(v.kv) |->
                                    KV(v.kv[j].k, ApplyHook(hook, v.kv[j].v))]))
      [] v.t = "list" ->
            JArr([j \in 1..Len(v.kv) |-> ApplyHook(hook, v.kv[j].v)])
      [] OTHER -> v

\* json.loads(text, object_hook=hook)
JsonLoadsHook(text, hook) ==
    LET d == JsonLoads(text) IN
    IF d.ok THEN [ok |-> TRUE, v |-> ApplyHook(hook, d.v)] ELSE d

\* `needle in container`: "True", "False", or "TypeError" when the container
\* supports neither membership nor iteration (strings are atomic here, so a
\* substring test is an equality test)
PyIn(needle, container) ==
    CASE container.t = "dict" -> IF HasKey(container, needle) THEN "True" ELSE "False"
      [] container.t = "list" ->
            IF \E j \in 1..Len(container.kv) : container.kv[j].v = JStr(needle)
            THEN "True" ELSE "False"
      [] container.t = "str" -> IF container.s = needle THEN "True" ELSE "False"
      [] OTHER -> "TypeError"

\* container[key] with a string key: only a dict can be subscripted so
Subscript(container, key) ==
    IF container.t # "dict" THEN Res(PyNone, << >>, "TypeError")
    ELSE IF ~HasKey(container, key) THEN Res(PyNone, << >>, "KeyError")
    ELSE Res(Get(container, key), << >>, "")

\* method03.object_decode
object_decode(str) ==
    LET d == JsonLoadsHook(str, "object_decoder") IN
    IF ~d.ok THEN Res(PyNone, << >>, "JSONDecodeError")
    ELSE LET obj == d.v
             hasNetwork == PyIn("network", obj)
         IN IF hasNetwork = "TypeError" THEN Res(PyNone, << >>, "TypeError")
            ELSE IF hasNetwork = "False" THEN Res(PyNone, << >>, "")
            ELSE LET network == Subscript(obj, "network") IN
                 IF network.raised # "" THEN network
                 ELSE LET hasStations == PyIn("stations", network.data) IN
                      IF hasStations = "TypeError" THEN Res(PyNone, << >>, "TypeError")
                      ELSE IF hasStations = "False" THEN Res(PyNone, << >>, "")
                      ELSE Subscript(network.data, "stations")

\* obj.name: the attribute of an instance, AttributeError on anything else
GetAttr(obj, name) ==
    IF obj.t \in {"dict", "list", "str", "int", "None"} \/ ~HasKey(obj, name)
    THEN Res(PyNone, << >>, "AttributeError")
    ELSE Res(Get(obj, name), << >>, "")

SetAttr(obj, name, v) == [obj EXCEPT !.kv = DictSet(obj.kv, name, v)]

(***************************************************************************)
(* The run.                                                                *)
(***************************************************************************)
NoExc == [kind |-> "", errors |-> << >>, line |-> 0]
NoResult == [data |-> PyNone, errors |-> << >>]
NoText == [data |-> << >>, errors |-> << >>]
PyRef(a) == [t |-> "ref", s |-> "", n |-> a, kv |-> << >>]

\* a printed line: "<name> | Free Bikes: <free_bikes>", the repr / str of a
\* value, or a text
StationLine(name, free) ==
    [kind |-> "station", s |-> name.s, n |-> free.n, v |-> PyNone, text |-> << >>]
ValueLine(kind, v) == [kind |-> kind, s |-> "", n |-> 0, v |-> v, text |-> << >>]
TextLine(kind, text) == [kind |-> kind, s |-> "", n |-> 0, v |-> PyNone, text |-> text]

\* a constructor that hands out the instance it already built for equal data
NewObjectInterned(h, tree) ==
    IF \E a \in 1..Len(h) : h[a] = tree
    THEN [heap |-> h, ref |-> PyRef(CHOOSE a \in 1..Len(h) : h[a] = tree)]
    ELSE [heap |-> Append(h, tree), ref |-> PyRef(Len(h) + 1)]

\* a post_load constructor returns a new instance: a fresh address
NewObject(h, tree) == [heap |-> Append(h, tree), ref |-> PyRef(Len(h) + 1)]
Deref(h, v) == IF v.t = "ref" THEN h[v.n] ELSE v

\* the module's top: responsestr read from response.txt, nothing run yet
Start(entry) ==
    /\ responsestr \in Texts
    /\ pc = entry
    /\ exc = NoExc
    /\ stdout = << >>
    /\ heap = << >>
    /\ result = NoResult
    /\ out = NoText
    /\ datain = NoResult
    /\ dataout = NoText
    /\ boundclass = PyNone
    /\ boundclasslist = PyNone
    /\ i = 0

\* line 362: the module calls method00 first
Init == Start("m00_84")

\* an uncaught exception of class kind ends the run at source line `line`
Raise(kind, errors, line) ==
    /\ pc' = "raised"
    /\ exc' = [kind |-> kind, errors |-> errors, line |-> line]

\* ---- method00 ----
\* line 84: result = schema.loads(responsestr)
M00_Load ==
    /\ pc = "m00_84"
    /\ LET r == SchemaLoads("M00_CityBikesAPISchema", M00_only, responsestr) IN
       IF r.raised # ""
       THEN Raise(r.raised, << >>, 84) /\ UNCHANGED result
       ELSE /\ result' = [data |-> r.data, errors |-> r.errors]
            /\ pc' = "m00_87"
            /\ UNCHANGED exc
    /\ UNCHANGED << responsestr, stdout, heap, out, datain, dataout,
                    boundclass, boundclasslist, i >>

\* lines 87-88: raise Exception(str(result.errors)) unless there is none
M00_Check ==
    /\ pc = "m00_87"
    /\ IF result.errors = << >>
       THEN pc' = "m00_93" /\ UNCHANGED exc
       ELSE Raise("Exception", result.errors, 88)
    /\ UNCHANGED << responsestr, stdout, heap, result, out, datain, dataout,
                    boundclass, boundclasslist, i >>

\* line 93: for station in result.data['network']['stations'], and after the
\* last iteration the return to the module, which calls method01
M00_For ==
    /\ pc = "m00_93"
    /\ LET network == Subscript(result.data, "network")
           stations == IF network.raised = ""
                       THEN Subscript(network.data, "stations") ELSE network
       IN IF stations.raised # ""
          THEN Raise(stations.raised, << >>, 93) /\ UNCHANGED << result, i >>
          ELSE IF i < Len(stations.data.kv)
          THEN pc' = "m00_94" /\ i' = i + 1 /\ UNCHANGED << exc, result >>
          ELSE pc' = "m01_230" /\ i' = 0 /\ result' = NoResult /\ UNCHANGED exc
    /\ UNCHANGED << responsestr, stdout, heap, out, datain, dataout,
                    boundclass, boundclasslist >>

\* line 94: print(station['name'] + ' | Free Bikes: ' + str(station['free_bikes']))
M00_Print ==
    /\ pc = "m00_94"
    /\ LET station == Get(Get(result.data, "network"), "stations").kv[i].v
           name == Subscript(station, "name")
           free == Subscript(station, "free_bikes")
       IN IF name.raised # "" THEN Raise(name.raised, << >>, 94) /\ UNCHANGED stdout
          ELSE IF free.raised # "" THEN Raise(free.raised, << >>, 94) /\ UNCHANGED stdout
          ELSE /\ stdout' = Append(stdout, StationLine(name.data, free.data))
               /\ pc' = "m00_93"
               /\ UNCHANGED exc
    /\ UNCHANGED << responsestr, heap, result, out, datain, dataout,
                    boundclass, boundclasslist, i >>

\* ---- method01 ----
\* schema.loads(responsestr, partial=False) of lines 230 and 246: the
\* UnmarshalResult, its data a new CityBikesAPI instance when no error was
\* stored
M01_loads(h) ==
    LET r == SchemaLoads("M01_CityBikesAPISchema", NoOnly, responsestr) IN
    IF r.raised # "" \/ r.errors # << >>
    THEN [raised |-> r.raised, heap |-> h,
          result |-> [data |-> r.data, errors |-> r.errors]]
    ELSE LET a == NewObject(h, r.data) IN
         [raised |-> "", heap |-> a.heap,
          result |-> [data |-> a.ref, errors |-> << >>]]

\* a first load that consumes the text it reads
M01_Load_Consuming ==
    /\ pc = "m01_230"
    /\ LET r == M01_loads(heap) IN
       IF r.raised # ""
       THEN Raise(r.raised, << >>, 230) /\ UNCHANGED << result, heap >>
       ELSE /\ result' = r.result
            /\ heap' = r.heap
            /\ pc' = "m01_232"
            /\ UNCHANGED exc
    /\ responsestr' = << >>
    /\ UNCHANGED << stdout, out, datain, dataout, boundclass, boundclasslist, i >>

\* line 230: result = schema.loads(responsestr, partial=False)
M01_Load ==
    /\ pc = "m01_230"
    /\ LET r == M01_loads(heap) IN
       IF r.raised # ""
       THEN Raise(r.raised, << >>, 230) /\ UNCHANGED << result, heap >>
       ELSE /\ result' = r.result
            /\ heap' = r.heap
            /\ pc' = "m01_232"
            /\ UNCHANGED exc
    /\ UNCHANGED << responsestr, stdout, out, datain, dataout,
                    boundclass, boundclasslist, i >>

\* lines 232-233
M01_Check ==
    /\ pc = "m01_232"
    /\ IF result.errors = << >>
       THEN pc' = "m01_235" /\ UNCHANGED exc
       ELSE Raise("Exception", result.errors, 233)
    /\ UNCHANGED << responsestr, stdout, heap, result, out, datain, dataout,
                    boundclass, boundclasslist, i >>

\* line 235: print ( result.data )
M01_PrintResult ==
    /\ pc = "m01_235"
    /\ stdout' = Append(stdout, ValueLine("repr", Deref(heap, result.data)))
    /\ pc' = "m01_237"
    /\ UNCHANGED << responsestr, exc, heap, result, out, datain, dataout,
                    boundclass, boundclasslist, i >>

\* line 237: out = schema.dumps(result.data)
M01_Dumps ==
    /\ pc = "m01_237"
    /\ out' = [data |-> SchemaDumps("M01_CityBikesAPISchema", Deref(heap, result.data)),
               errors |-> << >>]
    /\ pc' = "m01_239"
    /\ UNCHANGED << responsestr, exc, stdout, heap, result, datain, dataout,
                    boundclass, boundclasslist, i >>

\* line 239: print(out.data)
M01_PrintOut ==
    /\ pc = "m01_239"
    /\ stdout' = Append(stdout, TextLine("text", out.data))
    /\ pc' = "m01_246"
    /\ UNCHANGED << responsestr, exc, heap, result, out, datain, dataout,
                    boundclass, boundclasslist, i >>

\* line 246: datain = schema.loads(responsestr, partial=False)
M01_Load2 ==
    /\ pc = "m01_246"
    /\ LET r == M01_loads(heap) IN
       IF r.raised # ""
       THEN Raise(r.raised, << >>, 246) /\ UNCHANGED << datain, heap >>
       ELSE /\ datain' = r.result
            /\ heap' = r.heap
            /\ pc' = "m01_248"
            /\ UNCHANGED exc
    /\ UNCHANGED << responsestr, stdout, result, out, dataout,
                    boundclass, boundclasslist, i >>

\* lines 248-249: the check reads result.errors again, not datain.errors
M01_Check2 ==
    /\ pc = "m01_248"
    /\ IF result.errors = << >>
       THEN pc' = "m01_251" /\ UNCHANGED exc
       ELSE Raise("Exception", result.errors, 249)
    /\ UNCHANGED << responsestr, stdout, heap, result, out, datain, dataout,
                    boundclass, boundclasslist, i >>

NewCompany == JArr(<< JStr("Systems Cyclopolis") >>)

\* line 251: result.data.network.company = ['Systems Cyclopolis']
M01_SetCompany ==
    /\ pc = "m01_251"
    /\ LET network == GetAttr(Deref(heap, result.data), "network") IN
       IF result.data.t # "ref" \/ network.raised # ""
       THEN Raise("AttributeError", << >>, 251) /\ UNCHANGED heap
       ELSE /\ heap' = [heap EXCEPT ![result.data.n] =
                           SetAttr(@, "network",
                                   SetAttr(network.data, "company", NewCompany))]
            /\ pc' = "m01_253"
            /\ UNCHANGED exc
    /\ UNCHANGED << responsestr, stdout, result, out, datain, dataout,
                    boundclass, boundclasslist, i >>

\* line 253: dataout = schema.dumps(datain.data)
M01_Dumps2 ==
    /\ pc = "m01_253"
    /\ dataout' = [data |-> SchemaDumps("M01_CityBikesAPISchema",
                                        Deref(heap, datain.data)),
                   errors |-> << >>]
    /\ pc' = "m01_255"
    /\ UNCHANGED << responsestr, exc, stdout, heap, result, out, datain,
                    boundclass, boundclasslist, i >>

\* line 255: print(dataout), then the return to the module, which calls
\* method02; the instances of method01 are garbage from here on
M01_PrintDataout ==
    /\ pc = "m01_255"
    /\ stdout' = Append(stdout, TextLine("MarshalResult", dataout.data))
    /\ pc' = "m02_293"
    /\ result' = NoResult /\ out' = NoText /\ datain' = NoResult /\ dataout' = NoText
    /\ heap' = << >>
    /\ UNCHANGED << responsestr, exc, boundclass, boundclasslist, i >>

\* the items a for loop draws from v, or TypeError when v is not iterable
Iterate(v) ==
    CASE v.t = "list" -> Res(v, << >>, "")
      [] v.t = "dict" -> Res(JArr([j \in 1..Len(v.kv) |-> JStr(v.kv[j].k)]), << >>, "")
      [] OTHER -> Res(PyNone, << >>, "TypeError")

\* ---- method02 ----
\* line 293: boundclass = json.loads(responsestr, object_hook=lambda ...)
M02_Load ==
    /\ pc = "m02_293"
    /\ LET d == JsonLoadsHook(responsestr, "SimpleNamespace") IN
       IF ~d.ok
       THEN Raise("JSONDecodeError", << >>, 293) /\ UNCHANGED boundclass
       ELSE boundclass' = d.v /\ pc' = "m02_295" /\ UNCHANGED exc
    /\ UNCHANGED << responsestr, stdout, heap, result, out, datain, dataout,
                    boundclasslist, i >>

\* boundclass.network.stations, ready to be iterated
M02_stations ==
    LET network == GetAttr(boundclass, "network")
        stations == IF network.raised = ""
                    THEN GetAttr(network.data, "stations") ELSE network
    IN IF stations.raised = "" THEN Iterate(stations.data) ELSE stations

\* line 295: for station in boundclass.network.stations
M02_For ==
    /\ pc = "m02_295"
    /\ LET stations == M02_stations IN
       IF stations.raised # ""
       THEN Raise(stations.raised, << >>, 295) /\ UNCHANGED i
       ELSE IF i < Len(stations.data.kv)
       THEN pc' = "m02_296" /\ i' = i + 1 /\ UNCHANGED exc
       ELSE pc' = "m02_298" /\ i' = 0 /\ UNCHANGED exc
    /\ UNCHANGED << responsestr, stdout, heap, result, out, datain, dataout,
                    boundclass, boundclasslist >>

\* line 296: print(station.name + ' | Free Bikes: ' + str(station.free_bikes))
M02_Print ==
    /\ pc = "m02_296"
    /\ LET station == M02_stations.data.kv[i].v
           name == GetAttr(station, "name")
           free == GetAttr(station, "free_bikes")
       IN IF name.raised # "" THEN Raise(name.raised, << >>, 296) /\ UNCHANGED stdout
          ELSE IF name.data.t # "str" THEN Raise("TypeError", << >>, 296) /\ UNCHANGED stdout
          ELSE IF free.raised # "" THEN Raise(free.raised, << >>, 296) /\ UNCHANGED stdout
          ELSE /\ stdout' = Append(stdout, StationLine(name.data, free.data))
               /\ pc' = "m02_295"
               /\ UNCHANGED exc
    /\ UNCHANGED << responsestr, heap, result, out, datain, dataout,
                    boundclass, boundclasslist, i >>

\* line 298: print('type(boundclass.network.stations): ' + ...), the last
\* statement of the run
M02_PrintType ==
    /\ pc = "m02_298"
    /\ stdout' = Append(stdout, ValueLine("type", JStr(M02_stations.data.t)))
    /\ pc' = "done"
    /\ boundclass' = PyNone
    /\ UNCHANGED << responsestr, exc, heap, result, out, datain, dataout,
                    boundclasslist, i >>

\* ---- method03 (defined, not called by the module) ----
\* line 349: boundclasslist = object_decode(responsestr)
M03_Decode ==
    /\ pc = "m03_349"
    /\ LET r == object_decode(responsestr) IN
       IF r.raised # ""
       THEN Raise(r.raised, << >>, 349) /\ UNCHANGED boundclasslist
       ELSE boundclasslist' = r.data /\ pc' = "m03_352" /\ UNCHANGED exc
    /\ UNCHANGED << responsestr, stdout, heap, result, out, datain, dataout,
                    boundclass, i >>

\* line 352: for item in boundclasslist
M03_For ==
    /\ pc = "m03_352"
    /\ LET items == Iterate(boundclasslist) IN
       IF items.raised # ""
       THEN Raise(items.raised, << >>, 352) /\ UNCHANGED i
       ELSE IF i < Len(items.data.kv)
       THEN pc' = "m03_353" /\ i' = i + 1 /\ UNCHANGED exc
       ELSE pc' = "m03_356" /\ i' = 0 /\ UNCHANGED exc
    /\ UNCHANGED << responsestr, stdout, heap, result, out, datain, dataout,
                    boundclass, boundclasslist >>

\* line 353: print(item); a Station prints by its __str__ (line 313)
M03_Print ==
    /\ pc = "m03_353"
    /\ LET item == Iterate(boundclasslist).data.kv[i].v IN
       stdout' = Append(stdout,
                    IF item.t = "Station"
                    THEN StationLine(Get(item, "name"), Get(item, "free_bikes"))
                    ELSE ValueLine("str", item))
    /\ pc' = "m03_352"
    /\ UNCHANGED << responsestr, exc, heap, result, out, datain, dataout,
                    boundclass, boundclasslist, i >>

\* line 356: print('type(boundclasslist): ' + str(type(boundclasslist)))
M03_PrintType ==
    /\ pc = "m03_356"
    /\ stdout' = Append(stdout, ValueLine("type", JStr(boundclasslist.t)))
    /\ pc' = "done"
    /\ UNCHANGED << responsestr, exc, heap, result, out, datain, dataout,
                    boundclass, boundclasslist, i >>

\* lines 362-364: method00(); method01(); method02()
Next ==
    \/ M00_Load \/ M00_Check \/ M00_For \/ M00_Print
    \/ M01_Load \/ M01_Check \/ M01_PrintResult \/ M01_Dumps \/ M01_PrintOut
    \/ M01_Load2 \/ M01_Check2 \/ M01_SetCompany \/ M01_Dumps2 \/ M01_PrintDataout
    \/ M02_Load \/ M02_For \/ M02_Print \/ M02_PrintType

Spec == Init /\ [][Next]_vars

\* a call of method03 on the same text
Init03 == Start("m03_349")
Next03 == M03_Decode \/ M03_For \/ M03_Print \/ M03_PrintType
Spec03 == Init03 /\ [][Next03]_vars

(***************************************************************************)
(* Properties.                                                             *)
(***************************************************************************)
Doc == JsonLoads(responsestr)

\* the station objects of a decoded document, << >> when it has none
StationsOf(d) ==
    IF /\ d.ok
       /\ d.v.t = "dict"
       /\ HasKey(d.v, "network")
       /\ Get(d.v, "network").t = "dict"
       /\ HasKey(Get(d.v, "network"), "stations")
       /\ Get(Get(d.v, "network"), "stations").t = "list"
    THEN Items(Get(Get(d.v, "network"), "stations"))
    ELSE << >>

StationFieldPath(j, f) ==
    << KeyStep("network"), KeyStep("stations"), IdxStep(j - 1), KeyStep(f) >>
Reported(errors, e) == \E n \in 1..Len(errors) : errors[n] = e

\* C2: when some station object of the document lacks name or free_bikes,
\* the run ends at method00's check with a validation error listing the
\* path network.stations[j].<field> of that field, no record was
\* constructed and nothing was printed.
C2_MissingRequiredFails ==
    LET stations == StationsOf(Doc) IN
    \A j \in 1..Len(stations) : \A f \in {"name", "free_bikes"} :
        (stations[j].t = "dict" /\ ~HasKey(stations[j], f))
        => /\ pc = "m00_87" =>
                Reported(result.errors, Err(StationFieldPath(j, f), MissingMsg))
           /\ pc \notin {"m00_84", "m00_87"} =>
                /\ pc = "raised"
                /\ exc.kind = "Exception"
                /\ exc.line = 88
                /\ Reported(exc.errors, Err(StationFieldPath(j, f), MissingMsg))
                /\ heap = << >>
                /\ stdout = << >>

C2_Witness ==
    /\ pc = "raised"
    /\ exc.line = 88
    /\ \E j \in 1..Len(StationsOf(Doc)) : ~HasKey(StationsOf(Doc)[j], "name")

\* C8: for a text that is not well-formed JSON the run ends at the first
\* load (line 84) with the decoder's error: no validation error was stored
\* or raised, no record was constructed and nothing was printed.
C8_SyntaxErrorFirst ==
    (responsestr \in MalformedTexts /\ pc # "m00_84")
    => /\ pc = "raised"
       /\ exc = [kind |-> "JSONDecodeError", errors |-> << >>, line |-> 84]
       /\ result = NoResult
       /\ heap = << >>
       /\ stdout = << >>

C8_Witness == pc = "raised" /\ responsestr \in MalformedTexts

RECURSIVE Strip(_, _)
\* the document with every key the section-6 shape (method00's schema
\* classes) does not declare removed, at every nesting level
Strip(schema, v) ==
    IF v.t # "dict" THEN v
    ELSE LET fields == SchemaFields(schema)
             field(k) == fields[CHOOSE n \in 1..Len(fields) : fields[n].name = k]
             kept == SelectPairs(v.kv, {fields[n].name : n \in 1..Len(fields)})
         IN JObj([n \in 1..Len(kept) |->
                    LET f == field(kept[n].k) IN
                    KV(kept[n].k,
                       CASE f.type = "Nested" -> Strip(f.nested, kept[n].v)
                         [] f.type = "List" /\ f.container = "Nested" /\ kept[n].v.t = "list" ->
                              JArr([m \in 1..Len(kept[n].v.kv) |->
                                        Strip(f.nested, kept[n].v.kv[m].v)])
                         [] OTHER -> kept[n].v)])

\* a document of the section-6 shape: an object whose network is an object
\* with a list of station objects, and no key outside the shape
Section6Document(d) ==
    /\ d.ok
    /\ d.v.t = "dict"
    /\ HasKey(d.v, "network")
    /\ Get(d.v, "network").t = "dict"
    /\ HasKey(Get(d.v, "network"), "stations")
    /\ Get(Get(d.v, "network"), "stations").t = "list"
    /\ \A j \in 1..Len(StationsOf(d)) : StationsOf(d)[j].t = "dict"
    /\ Strip("M00_CityBikesAPISchema", d.v) = d.v

\* all the fields section 3 marks required are present
RequiredPresent(d) ==
    /\ Section6Document(d)
    /\ HasKey(Get(d.v, "network"), "location")
    /\ \A j \in 1..Len(StationsOf(d)) :
          HasKey(StationsOf(d)[j], "name") /\ HasKey(StationsOf(d)[j], "free_bikes")

\* the stations of a mapped network carry, in order, the name and
\* free_bikes of the document's stations
SameStations(mapped, d) ==
    /\ Len(mapped.kv) = Len(StationsOf(d))
    /\ \A j \in 1..Len(mapped.kv) :
          /\ Get(mapped.kv[j].v, "name") = Get(StationsOf(d)[j], "name")
          /\ Get(mapped.kv[j].v, "free_bikes") = Get(StationsOf(d)[j], "free_bikes")

\* C1: for every document of the section-6 shape with all required fields
\* present, both schema mappings (method00's and method01's load) succeed
\* and network.stations of the result has the length of the document's
\* stations array, its j-th record carrying the name and free_bikes of the
\* j-th station.
C1_StationsPreserved ==
    RequiredPresent(Doc) =>
        /\ pc = "m00_87" =>
              /\ result.errors = << >>
              /\ SameStations(Get(Get(result.data, "network"), "stations"), Doc)
        /\ ~(pc = "raised" /\ exc.line \in {84, 88, 230, 233})
        /\ pc = "m01_232" =>
              /\ result.errors = << >>
              /\ SameStations(Get(Get(Deref(heap, result.data), "network"), "stations"), Doc)

\* C3: a run that ends in a validation failure has printed nothing.
C3_NoOutputBeforeValidationError ==
    (pc = "raised" /\ exc.kind = "Exception") => stdout = << >>

\* some optional field of the section-6 shape is absent from the document
OptionalAbsent(d) ==
    \/ Keys(Get(d.v, "network")) # InitParams("Network")
    \/ \E j \in 1..Len(StationsOf(d)) :
          \/ Keys(StationsOf(d)[j]) # InitParams("Station")
          \/ Keys(Get(StationsOf(d)[j], "extra")) # InitParams("Extra")

\* C4: when an optional field is absent from an otherwise valid document,
\* record construction does not fail, and every attribute of a constructed
\* Station exists (an absent field as None).
C4_OptionalAbsentStillMaps ==
    (RequiredPresent(Doc) /\ OptionalAbsent(Doc))
    => /\ exc.kind # "TypeError"
       /\ pc = "m01_232" =>
             LET stations == Get(Get(Deref(heap, result.data), "network"), "stations") IN
             \A j \in 1..Len(stations.kv) :
                 Keys(stations.kv[j].v) = InitParams("Station")

\* the required fields missing from the document's station objects, as
\* << station index, field >>
MissingStationFields(d) ==
    { m \in (1..Len(StationsOf(d))) \X {"free_bikes", "name"} :
        StationsOf(d)[m[1]].t = "dict" /\ ~HasKey(StationsOf(d)[m[1]], m[2]) }
\* position of an error in the collected errors (0 when absent)
ErrorIndex(errors, e) ==
    IF Reported(errors, e) THEN CHOOSE n \in 1..Len(errors) : errors[n] = e ELSE 0

\* C6 as amended: validation collects.  When method00's check raises, the
\* one Exception carries an entry for every missing required station field,
\* each under its full path and in document order, and up to then nothing
\* was printed and no record was constructed.
C6_ErrorsCollected ==
    (pc = "raised" /\ exc.kind = "Exception" /\ exc.line = 88)
    => /\ \A m \in MissingStationFields(Doc) :
             Reported(exc.errors, Err(StationFieldPath(m[1], m[2]), MissingMsg))
       /\ \A m1, m2 \in MissingStationFields(Doc) :
             m1[1] < m2[1] =>
                ErrorIndex(exc.errors, Err(StationFieldPath(m1[1], m1[2]), MissingMsg))
                < ErrorIndex(exc.errors, Err(StationFieldPath(m2[1], m2[2]), MissingMsg))
       /\ Len(exc.errors) >= Cardinality(MissingStationFields(Doc))
       /\ stdout = << >>
       /\ heap = << >>

C6_Witness ==
    /\ pc = "raised" /\ exc.kind = "Exception" /\ exc.line = 88
    /\ \E m1, m2 \in MissingStationFields(Doc) : m1[1] < m2[1]

\* C6: validation is fail-fast.  A validation failure reports exactly one
\* error, that of the first failing element in document order.
C6_FailFast ==
    (pc = "raised" /\ exc.kind = "Exception")
    => /\ Len(exc.errors) = 1
       /\ \A m \in MissingStationFields(Doc) :
             Reported(exc.errors, Err(StationFieldPath(m[1], m[2]), MissingMsg))
             => \A m2 \in MissingStationFields(Doc) : m[1] <= m2[1]

\* the outcome of a schema load of the document with its unknown keys removed
CleanText == Encode(Strip("M00_CityBikesAPISchema", Doc.v))
HasUnknownKey == Doc.ok /\ Strip("M00_CityBikesAPISchema", Doc.v) # Doc.v

\* C5 as amended: a key outside the target shape, at any nesting level, has
\* no effect on the schema mappings: method00's and method01's load of the
\* document give the data, the errors and the exception they give for the
\* document without the key.
C5_SchemaIgnoresUnknown ==
    Doc.ok =>
        /\ pc = "m00_87" =>
              LET clean == SchemaLoads("M00_CityBikesAPISchema", M00_only, CleanText) IN
              result = [data |-> clean.data, errors |-> clean.errors]
        /\ pc = "m01_232" =>
              LET clean == SchemaLoads("M01_CityBikesAPISchema", NoOnly, CleanText) IN
              /\ clean.raised = ""
              /\ result.errors = clean.errors
              /\ Deref(heap, result.data) = clean.data
        /\ (pc = "raised" /\ exc.line = 230) =>
              SchemaLoads("M01_CityBikesAPISchema", NoOnly, CleanText).raised = exc.kind

C5_Witness == pc = "m01_235" /\ HasUnknownKey

\* C5: a key outside the target shape has no effect on any mapping; it is
\* not attached to a record.
C5_UnknownKeyNoEffect ==
    /\ C5_SchemaIgnoresUnknown
    /\ (Doc.ok /\ pc = "m02_295") =>
          boundclass = JsonLoadsHook(CleanText, "SimpleNamespace").v

C9_ObjectDecode ==
    (Doc.ok /\ pc # "m03_349") =>
        /\ ~(pc = "raised" /\ exc.line = 349)
        /\ IF /\ Doc.v.t = "dict"
              /\ HasKey(Doc.v, "network")
              /\ Get(Doc.v, "network").t = "dict"
              /\ HasKey(Get(Doc.v, "network"), "stations")
           THEN /\ boundclasslist
                     = ApplyHook("object_decoder", Get(Get(Doc.v, "network"), "stations"))
                /\ \A j \in 1..Len(StationsOf(Doc)) :
                      boundclasslist.kv[j].v.t = "Station"
                      <=> ( /\ HasKey(StationsOf(Doc)[j], "free_bikes")
                            /\ HasKey(StationsOf(Doc)[j], "name") )
           ELSE boundclasslist = PyNone

====
